---- MODULE Spec2Model ----
(***************************************************************************)
(* Offline-resilient API access layer of the MODERN-FITNESS-GYM admin      *)
(* console: the service worker (public/sw.js), the IndexedDB action queue  *)
(* and its replay (services/offlineQueue.js), the axios client with its    *)
(* interceptors and the route guard (services/api.js and                   *)
(* components/ProtectedRoute.jsx, both carried in AdminLayout.jsx), the    *)
(* session handlers of LoginPage.jsx and AdminSettings.jsx, and the        *)
(* connectivity handlers of App.jsx.                                       *)
(***************************************************************************)
EXTENDS Integers, Sequences, FiniteSets, TLC

(***************************************************************************)
(* Bounds of the model.                                                    *)
(***************************************************************************)
MaxFetch == 2        \* fetch events delivered to the service worker
MaxCaches == 2       \* named caches that may exist before activation
MaxReq == 2          \* API calls of the page that may be in flight together
MaxProc == 1         \* queue operations of the page that may be running together
MaxKey == 3          \* records ever added to the object store
MaxDrain == 2        \* queue operations overlapping in the specification of concurrent drains
MaxDrainKey == 2     \* records ever added to the object store in that specification

(***************************************************************************)
(* State.                                                                  *)
(***************************************************************************)
\* service worker (public/sw.js)
VARIABLES
  swState,       \* lifecycle of the worker registration
  cacheStorage,  \* CacheStorage: cache name -> set of request URLs it holds
  purgeList,     \* cacheNames, the list caches.keys() gave the activate handler
  fetchEvent,    \* per fetch event: scheme, url, position in the handler, respondWith value
  netFetches     \* per fetch event: number of fetch(request) calls issued

\* session storage, router and API client
VARIABLES
  token,          \* localStorage 'token'
  user,           \* localStorage 'user'
  location,       \* window.location path, a sequence of segments
  view,           \* what the router renders at location
  unloading,      \* a window.location.href assignment is replacing the document
  req,            \* API calls of the page that are in flight, as sent
  delivered,      \* the call that settled last, as delivered to its caller
  loginError,     \* LoginPage state 'error'
  loading,        \* LoginPage state 'loading'
  settingsStatus  \* AdminSettings state 'error' / 'success'

\* offline action queue (services/offlineQueue.js)
VARIABLES
  db,              \* offlineQueue.js:3, the module's cached database handle
  storeAvailable,  \* whether indexedDB.open('FitNixProDB', 1) can succeed now
  store,           \* object store 'offlineActions': the set of its records
  keyGen,          \* the store's key generator: the key the next add is given
  inserted,        \* the keys of the records added so far, in the order of the adds
  opens,           \* database connections the page has opened
  proc,            \* the queue operations of the page and how far each has got
  ret              \* the operation that settled in the last step, and with what

\* connectivity (App.jsx:15-29, offlineQueue.js:117-123)
VARIABLES
  isOnline,        \* App.jsx:16, the App component's state
  syncTags,        \* tags registered with the registration's SyncManager
  event            \* the connectivity event the browser delivered last

\* route guard (components/ProtectedRoute.jsx, in AdminLayout.jsx:221-239)
VARIABLES
  guard            \* the last mount of ProtectedRoute: its prop, what it read, what it rendered

swVars == <<swState, cacheStorage, purgeList, fetchEvent, netFetches>>
apiVars == <<token, user, location, view, unloading, req, delivered, loginError, loading,
            settingsStatus>>
queueVars == <<db, storeAvailable, store, keyGen, inserted, opens, proc, ret>>
appVars == <<isOnline, syncTags, event>>
guardVars == <<guard>>
vars == <<swVars, apiVars, queueVars, appVars, guardVars>>

\* what each component leaves alone
notSw == <<apiVars, queueVars, appVars, guardVars>>
notApi == <<swVars, queueVars, appVars, guardVars>>
notQueue == <<swVars, appVars, guardVars>>
notApp == <<swVars, apiVars, queueVars, guardVars>>
notGuard == <<swVars, queueVars, appVars>>

(***************************************************************************)
(* Service worker: public/sw.js                                            *)
(***************************************************************************)
CACHE_NAME == "fitnix-pro-v1"

AllCacheNames == {CACHE_NAME, "fitnix-pro-v0", "workbox-precache"}
Schemes == {"http:", "https:", "chrome-extension:", "data:"}
RequestUrls == {"/api/members", "/index.html"}
FetchIds == 1..MaxFetch

Undefined == [type |-> "undefined"]
NoValue == [type |-> "none"]

\* sw.js:41-46: the synthesized offline response
OfflineResponse ==
  [type |-> "Response", status |-> 503, statusText |-> "Service Unavailable",
   contentType |-> "text/plain", body |-> "Offline - No cached data available"]

\* a response produced by the network or held in a cache
ServerResponse(st, from) ==
  [type |-> "Response", status |-> st, statusText |-> "", contentType |-> "application/json",
   body |-> from]

NetworkStatuses == {200, 500}

\* the scheme test letting extension requests through to the strategy
StartsWithHttpOrExtension(protocol) == protocol # "data:"

\* sw.js:28: url.protocol.startsWith('http')
StartsWithHttp(protocol) == protocol \in {"http:", "https:"}

\* caches.match(request): the first cached response for the request over all
\* named caches, undefined when none holds it
CachesMatch(url) ==
  IF \E n \in DOMAIN cacheStorage : url \in cacheStorage[n]
    THEN ServerResponse(200, "cache")
    ELSE Undefined

IdleEvent ==
  [phase |-> "idle", scheme |-> "http:", url |-> "/index.html", network |-> "none",
   respondWith |-> NoValue]

\* sw.js:4-6: install listener, skipWaiting() lets the worker go on to activate
Install ==
  /\ swState = "parsed"
  /\ swState' = "installed"
  /\ UNCHANGED <<cacheStorage, purgeList, fetchEvent, netFetches>>
  /\ UNCHANGED notSw

\* sw.js:9-20: activate listener up to caches.keys() resolving; clients.claim()
ActivateStart ==
  /\ swState = "installed"
  /\ swState' = "activating"
  /\ purgeList' = DOMAIN cacheStorage
  /\ UNCHANGED <<cacheStorage, fetchEvent, netFetches>>
  /\ UNCHANGED notSw

\* sw.js:13-15: one caches.delete(cacheName) of the Promise.all settles
PurgeOne(cacheName) == [n \in (DOMAIN cacheStorage) \ {cacheName} |-> cacheStorage[n]]

ActivateDelete ==
  /\ swState = "activating"
  /\ \E cacheName \in purgeList \cap DOMAIN cacheStorage :
       cacheStorage' = PurgeOne(cacheName)
  /\ UNCHANGED <<swState, purgeList, fetchEvent, netFetches>>
  /\ UNCHANGED notSw

\* an activation that does not wait for the deletions
ActivateDoneEarly ==
  /\ swState = "activating"
  /\ swState' = "activated"
  /\ UNCHANGED <<cacheStorage, purgeList, fetchEvent, netFetches>>
  /\ UNCHANGED notSw

\* sw.js:10: the promise given to waitUntil settles, the worker becomes active
ActivateDone ==
  /\ swState = "activating"
  /\ purgeList \cap DOMAIN cacheStorage = {}
  /\ swState' = "activated"
  /\ UNCHANGED <<cacheStorage, purgeList, fetchEvent, netFetches>>
  /\ UNCHANGED notSw

\* sw.js:23-33: the synchronous part of the fetch listener
FetchHandler(i, protocol, url) ==
  IF ~StartsWithHttp(protocol)
    THEN /\ fetchEvent' = [fetchEvent EXCEPT ![i] =
                [phase |-> "default", scheme |-> protocol, url |-> url, network |-> "none",
                 respondWith |-> NoValue]]
         /\ UNCHANGED netFetches
    ELSE /\ fetchEvent' = [fetchEvent EXCEPT ![i] =
                [phase |-> "network", scheme |-> protocol, url |-> url, network |-> "pending",
                 respondWith |-> NoValue]]
         /\ netFetches' = [netFetches EXCEPT ![i] = @ + 1]

FetchDispatch ==
  /\ swState = "activated"
  /\ \E i \in FetchIds, protocol \in Schemes, url \in RequestUrls :
       /\ fetchEvent[i].phase = "idle"
       /\ FetchHandler(i, protocol, url)
  /\ UNCHANGED <<swState, cacheStorage, purgeList>>
  /\ UNCHANGED notSw

\* sw.js:34-37: fetch(request) resolved, .then passes the response through
NetworkResolve ==
  /\ \E i \in FetchIds, st \in NetworkStatuses :
       /\ fetchEvent[i].phase = "network"
       /\ fetchEvent' = [fetchEvent EXCEPT ![i].phase = "responded",
                                           ![i].network = "resolved",
                                           ![i].respondWith = ServerResponse(st, "network")]
  /\ UNCHANGED <<swState, cacheStorage, purgeList, netFetches>>
  /\ UNCHANGED notSw

\* a rejected fetch(request) answered with one more fetch(request)
NetworkRejectRetries ==
  /\ \E i \in FetchIds :
       /\ fetchEvent[i].phase = "network"
       /\ netFetches' = [netFetches EXCEPT ![i] = @ + 1]
  /\ UNCHANGED <<swState, cacheStorage, purgeList, fetchEvent>>
  /\ UNCHANGED notSw

\* sw.js:38-40: fetch(request) rejected, .catch calls caches.match(request)
NetworkReject ==
  /\ \E i \in FetchIds :
       /\ fetchEvent[i].phase = "network"
       /\ fetchEvent' = [fetchEvent EXCEPT ![i].phase = "cacheMatch", ![i].network = "rejected"]
  /\ UNCHANGED <<swState, cacheStorage, purgeList, netFetches>>
  /\ UNCHANGED notSw

\* sw.js:40: caches.match(request) fulfilled: its value, a Response or undefined,
\* is what respondWith receives; the inner .catch is not run
CacheMatchResolve ==
  /\ \E i \in FetchIds :
       /\ fetchEvent[i].phase = "cacheMatch"
       /\ fetchEvent' = [fetchEvent EXCEPT ![i].phase = "responded",
                                           ![i].respondWith = CachesMatch(fetchEvent[i].url)]
  /\ UNCHANGED <<swState, cacheStorage, purgeList, netFetches>>
  /\ UNCHANGED notSw

\* sw.js:40-49: caches.match(request) rejected (storage failure): the inner
\* .catch builds the 503 response
CacheMatchReject ==
  /\ \E i \in FetchIds :
       /\ fetchEvent[i].phase = "cacheMatch"
       /\ fetchEvent' = [fetchEvent EXCEPT ![i].phase = "responded",
                                           ![i].respondWith = OfflineResponse]
  /\ UNCHANGED <<swState, cacheStorage, purgeList, netFetches>>
  /\ UNCHANGED notSw

SwNext ==
  \/ Install
  \/ ActivateStart
  \/ ActivateDelete
  \/ ActivateDone
  \/ FetchDispatch
  \/ NetworkResolve
  \/ NetworkReject
  \/ CacheMatchResolve
  \/ CacheMatchReject


(***************************************************************************)
(* Session storage, router and API client: services/api.js and             *)
(* components/ProtectedRoute.jsx (AdminLayout.jsx:219-296), App.jsx,       *)
(* LoginPage.jsx, AdminSettings.jsx                                        *)
(***************************************************************************)
ReqIds == 1..MaxReq

\* ---- values ----
Null == [type |-> "null"]
NotJson == [type |-> "notjson"]
Missing == "<undefined>"                   \* a property the object does not have
Str(text) == [type |-> "string", text |-> text, json |-> NotJson]
Obj(role, username) == [type |-> "object", role |-> role, username |-> username]
EmptyObject == Obj(Missing, Missing)       \* the value of JSON.parse('{}')

\* JSON.stringify(value): undefined for undefined, else the text of the value
JSONstringify(value) ==
  IF value.type = "undefined" THEN Undefined
  ELSE [type |-> "string", text |-> "json", json |-> value]

\* JSON.parse(text): the value the text denotes; NotJson stands for the SyntaxError
JSONparse(text) == text.json

\* localStorage.setItem(key, value) stores String(value)
ToStorage(value) == IF value.type = "undefined" THEN Str("undefined") ELSE value

\* ---- messages: texts as sequences of words ----
Includes(text, phrase) ==
  \E i \in 1..(Len(text) - Len(phrase) + 1) :
    SubSeq(text, i, i + Len(phrase) - 1) = phrase

NoText == << >>
LoginFailedText == <<"Login", "failed.", "Please", "try", "again.">>
UnknownRoleText == <<"Unknown", "user", "role">>

ServerTexts ==
  { <<"Token", "expired">>,
    <<"Insufficient", "permissions">>,
    <<"Only", "members", "can", "book">>,
    <<"Error:", "Unauthorized">>,
    <<"unauthorized">> }
MessageTexts == { <<"Token", "expired">>, <<"Insufficient", "permissions">> }

\* error envelope: { error: string } or { message: string } (a missing field reads as '')
ErrorBodies ==
  {[error |-> t, message |-> NoText] : t \in ServerTexts \cup {NoText}}
    \cup {[error |-> NoText, message |-> t] : t \in MessageTexts}

\* an axios error: status 0 stands for a failure with no response
ErrorStatuses == {0, 401, 403, 500}
AxiosErrors ==
  {[status |-> st, data |-> d] : st \in ErrorStatuses \ {0}, d \in ErrorBodies}
    \cup {[status |-> 0, data |-> [error |-> NoText, message |-> NoText]]}
NoError == [status |-> 200, data |-> [error |-> NoText, message |-> NoText]]

\* ---- router: App.jsx:32-53 ----
BASENAME == <<"MODERN-FITNESS-GYM">>
LoginHref == <<"login">>                    \* api.js: window.location.href = '/login'

\* react-router navigate(to) / <Navigate to>: paths are relative to the basename
RouterPath(to) == BASENAME \o to

StripBasename(path) ==
  IF Len(path) >= Len(BASENAME) /\ SubSeq(path, 1, Len(BASENAME)) = BASENAME
    THEN [ok |-> TRUE, rest |-> SubSeq(path, Len(BASENAME) + 1, Len(path))]
    ELSE [ok |-> FALSE, rest |-> << >>]

AdminPages == {"members", "trainers", "packages", "finance", "analytics", "settings"}

\* variant of the guard whose catch block lets the children render
ProtectedRouteLenient(requiredRole, tok, usr) ==
  IF tok.type = "null" \/ usr.type = "null" THEN "redirect"
  ELSE LET userData == JSONparse(usr) IN
       IF userData.type = "notjson" THEN "children"
       ELSE IF requiredRole # Missing /\ userData.role # requiredRole THEN "redirect"
       ELSE "children"

\* AdminLayout.jsx:221-239 (ProtectedRoute.jsx)
ProtectedRoute(requiredRole, tok, usr) ==
  IF tok.type = "null" \/ usr.type = "null" THEN "redirect"
  ELSE LET userData == JSONparse(usr) IN
       IF userData.type = "notjson" THEN "redirect"
       ELSE IF requiredRole # Missing /\ userData.role # requiredRole THEN "redirect"
       ELSE "children"

\* App.jsx:35-52: the element the <Routes> render for a path, given the session
RouteElement(path, tok, usr) ==
  LET s == StripBasename(path) IN
  IF ~s.ok THEN "none"
  ELSE IF s.rest = <<"login">> THEN "login"
  ELSE IF s.rest = <<"reset-password">> THEN "reset-password"
  ELSE IF s.rest = <<"admin">> \/ (Len(s.rest) = 2 /\ s.rest[1] = "admin" /\ s.rest[2] \in AdminPages)
    THEN (IF ProtectedRoute("admin", tok, usr) = "children" THEN "admin" ELSE "redirect")
  ELSE IF s.rest = << >> THEN "redirect"
  ELSE IF s.rest[1] \in {"member", "trainer"} THEN "redirect"
  ELSE "none"

\* where the router ends up: <Navigate to="/login" replace /> is followed
Render(path, tok, usr) ==
  IF RouteElement(path, tok, usr) = "redirect"
    THEN [location |-> RouterPath(<<"login">>), view |-> "login"]
    ELSE [location |-> path, view |-> RouteElement(path, tok, usr)]

\* the login entry point the router serves
ServesLogin(path) == RouteElement(path, Null, Null) = "login"

\* no ProtectedRoute has been mounted
NoGuard == [requiredRole |-> Missing, token |-> Null, user |-> Null, outcome |-> "none"]

\* what localStorage may hold when a protected route is entered: nothing, what
\* a login stored (LoginPage.jsx:331-332, 'undefined' for a field the response
\* lacked), or what another page of the origin left there
GuardTokens == {Null, Str("jwt1"), Str("undefined")}
GuardUsers ==
  {Null, Str("undefined"), JSONstringify(EmptyObject)}
    \cup {JSONstringify(Obj(r, "admin")) : r \in {"admin", "ADMIN", "trainer"}}

\* the requiredRole prop: App.jsx:39-45 pass "admin", the prop may be left out
RequiredRoles == {"admin", Missing}

\* App.jsx:39-45, AdminLayout.jsx:221-239: a route whose element is
\* <ProtectedRoute requiredRole=...> is entered; the guard reads both keys and
\* renders its children or <Navigate to="/login" replace />
ProtectedRouteMount ==
  /\ \E requiredRole \in RequiredRoles, page \in {<<"admin">>} \cup {<<"admin", a>> : a \in AdminPages} :
       LET outcome == ProtectedRoute(requiredRole, token, user) IN
       /\ guard' = [requiredRole |-> requiredRole, token |-> token, user |-> user,
                    outcome |-> outcome]
       /\ location' = IF outcome = "children" THEN RouterPath(page) ELSE RouterPath(<<"login">>)
       /\ view' = IF outcome = "children" THEN "admin" ELSE "login"
  /\ UNCHANGED <<token, user, unloading, req, delivered, loginError, loading, settingsStatus>>
  /\ UNCHANGED notGuard

\* ---- interceptors: AdminLayout.jsx:254-294 (api.js) ----
\* variant of the request interceptor that never adds the Authorization header
RequestHeadersAnonymous(tok) ==
  [Authorization |-> <<>>,
   CacheControl |-> "no-cache, no-store, must-revalidate",
   Pragma |-> "no-cache",
   Expires |-> "0"]

\* request interceptor: the headers the call is sent with
RequestHeaders(tok) ==
  [Authorization |-> IF tok.type = "null" THEN <<>> ELSE <<"Bearer", tok.text>>,
   CacheControl |-> "no-cache, no-store, must-revalidate",
   Pragma |-> "no-cache",
   Expires |-> "0"]

\* AdminLayout.jsx:277: error.response?.data?.error || ''
ErrorMessage(error) == error.data.error

\* variant of the phrase test that has lost its third phrase
IsAuthorizationErrorTwoPhrases(errorMessage) ==
  \/ Includes(errorMessage, <<"Only", "members">>)
  \/ Includes(errorMessage, <<"Insufficient", "permissions">>)

\* AdminLayout.jsx:280-282
IsAuthorizationError(errorMessage) ==
  \/ Includes(errorMessage, <<"Only", "members">>)
  \/ Includes(errorMessage, <<"Insufficient", "permissions">>)
  \/ Includes(errorMessage, <<"Unauthorized">>)

\* variant of the status test that takes a 403 for a 401 as well
LogsOutOnForbidden(error) ==
  /\ error.status \in {401, 403}
  /\ ~IsAuthorizationError(ErrorMessage(error))

\* AdminLayout.jsx:275-292: does the response interceptor log the user out
LogsOut(error) ==
  /\ error.status = 401
  /\ ~IsAuthorizationError(ErrorMessage(error))

IdleReq == [state |-> "idle", kind |-> "none", headers |-> RequestHeaders(Null)]

SentReq(kind) == [state |-> "sent", kind |-> kind, headers |-> RequestHeaders(token)]

NoDelivery == [req |-> 0, kind |-> "none", error |-> NoError, how |-> "none"]

SettingsPath == RouterPath(<<"admin", "settings">>)
LoginUsers == {Obj(r, "admin") : r \in {"admin", "ADMIN", "trainer", "guest"}} \cup {Undefined}
AccessTokens == {Str("jwt1"), Undefined}
ProfileNames == {"boss"}
EnteredPaths == {RouterPath(<<"login">>), RouterPath(<<"admin">>), SettingsPath, LoginHref}

FreeSlot(r) == req[r].state = "idle"

\* call r settles: its caller resumes with the response or with the error
Settle(r, error, how) ==
  /\ req' = [req EXCEPT ![r] = IdleReq]
  /\ delivered' = [req |-> r, kind |-> req[r].kind, error |-> error, how |-> how]

\* a react-router navigation: the route is rendered against the session (tok, usr)
\* and the page components are mounted afresh
RouterNavigate(to, tok, usr) ==
  /\ location' = Render(RouterPath(to), tok, usr).location
  /\ view' = Render(RouterPath(to), tok, usr).view
  /\ loginError' = NoText
  /\ loading' = FALSE
  /\ settingsStatus' = "none"

\* variant of the error branch that never touches the session
InterceptErrorKeepsSession(error) == UNCHANGED <<token, user, location, unloading>>

\* AdminLayout.jsx:272-294: response interceptor, error branch
InterceptError(error) ==
  IF LogsOut(error)
    THEN /\ token' = Null
         /\ user' = Null
         /\ location' = LoginHref
         /\ unloading' = TRUE
    ELSE UNCHANGED <<token, user, location, unloading>>

\* AdminLayout.jsx (sidebar links): a router navigation between admin pages
OpenAdminPage ==
  /\ view = "admin"
  /\ \E page \in {"settings"} : RouterNavigate(<<"admin", page>>, token, user)
  /\ delivered' = NoDelivery
  /\ UNCHANGED <<token, user, unloading, req>>
  /\ UNCHANGED notApi

\* LoginPage.jsx:318-327: handleSubmit up to the await
LoginSubmit ==
  /\ view = "login"
  /\ ~loading
  /\ \E r \in ReqIds :
       /\ FreeSlot(r)
       /\ req' = [req EXCEPT ![r] = SentReq("login")]
  /\ loginError' = NoText
  /\ loading' = TRUE
  /\ delivered' = NoDelivery
  /\ UNCHANGED <<token, user, location, view, unloading, settingsStatus>>
  /\ UNCHANGED notApi

\* LoginPage.jsx:329-347: the call resolved
LoginResolve ==
  /\ \E r \in ReqIds, access_token \in AccessTokens, usr \in LoginUsers :
       /\ req[r].state = "sent" /\ req[r].kind = "login"
       /\ Settle(r, NoError, "resolved")
       /\ token' = ToStorage(access_token)
       /\ user' = ToStorage(JSONstringify(usr))
       /\ IF usr.type = "undefined"
            THEN \* user.role throws, the catch block reports it
                 /\ loginError' = LoginFailedText
                 /\ loading' = FALSE
                 /\ UNCHANGED <<location, view, settingsStatus>>
          ELSE IF usr.role \in {"ADMIN", "admin"}
            THEN RouterNavigate(<<"admin">>, token', user')
          ELSE IF usr.role \in {"TRAINER", "trainer"}
            THEN RouterNavigate(<<"trainer">>, token', user')
          ELSE IF usr.role \in {"MEMBER", "member"}
            THEN RouterNavigate(<<"member">>, token', user')
          ELSE /\ loginError' = UnknownRoleText
               /\ loading' = FALSE
               /\ UNCHANGED <<location, view, settingsStatus>>
  /\ UNCHANGED unloading
  /\ UNCHANGED notApi

\* LoginPage.jsx:344: err.response?.data?.error || err.response?.data?.message || default
LoginErrorText(error) ==
  IF error.data.error # NoText THEN error.data.error
  ELSE IF error.data.message # NoText THEN error.data.message
  ELSE LoginFailedText

\* LoginPage.jsx:343-347: the call was rejected, after the response interceptor ran
LoginReject ==
  /\ \E r \in ReqIds, error \in AxiosErrors :
       /\ req[r].state = "sent" /\ req[r].kind = "login"
       /\ Settle(r, error, "rejected")
       /\ InterceptError(error)
       /\ loginError' = LoginErrorText(error)
  /\ loading' = FALSE
  /\ UNCHANGED <<view, settingsStatus>>
  /\ UNCHANGED notApi

\* AdminSettings.jsx:75-85: handleProfileUpdate up to the await
ProfileSubmit ==
  /\ view = "admin" /\ location = SettingsPath
  /\ \E r \in ReqIds :
       /\ FreeSlot(r)
       /\ req' = [req EXCEPT ![r] = SentReq("profile")]
  /\ settingsStatus' = "none"
  /\ delivered' = NoDelivery
  /\ UNCHANGED <<token, user, location, view, unloading, loginError, loading>>
  /\ UNCHANGED notApi

\* AdminSettings.jsx:88-90: the stored user with the new username
UpdatedUser(stored, name) ==
  LET parsed == JSONparse(IF stored.type = "null" THEN JSONstringify(EmptyObject) ELSE stored) IN
  IF parsed.type = "notjson" THEN NotJson
  ELSE JSONstringify([parsed EXCEPT !.username = name])

\* AdminSettings.jsx:87-97: the call resolved
ProfileResolve ==
  /\ \E r \in ReqIds, name \in ProfileNames :
       /\ req[r].state = "sent" /\ req[r].kind = "profile"
       /\ Settle(r, NoError, "resolved")
       /\ IF UpdatedUser(user, name).type = "notjson"
            THEN /\ settingsStatus' = "error"
                 /\ UNCHANGED user
            ELSE /\ settingsStatus' = "success"
                 /\ user' = ToStorage(UpdatedUser(user, name))
  /\ UNCHANGED <<token, location, view, unloading, loginError, loading>>
  /\ UNCHANGED notApi

\* AdminSettings.jsx:93-97: the call was rejected, after the response interceptor ran
ProfileReject ==
  /\ \E r \in ReqIds, error \in AxiosErrors :
       /\ req[r].state = "sent" /\ req[r].kind = "profile"
       /\ Settle(r, error, "rejected")
       /\ InterceptError(error)
  /\ settingsStatus' = "error"
  /\ UNCHANGED <<view, loginError, loading>>
  /\ UNCHANGED notApi

\* AdminSettings.jsx:147-151 (and the same handler of every admin page)
handleLogout ==
  /\ view = "admin"
  /\ token' = Null
  /\ user' = Null
  /\ RouterNavigate(<<"login">>, token', user')
  /\ delivered' = NoDelivery
  /\ UNCHANGED <<unloading, req>>
  /\ UNCHANGED notApi

\* AdminSettings.jsx:60-73: a read call of an admin page (fetchSystemSettings)
ApiGetSubmit ==
  /\ view = "admin"
  /\ \E r \in ReqIds :
       /\ FreeSlot(r)
       /\ req' = [req EXCEPT ![r] = SentReq("get")]
  /\ delivered' = NoDelivery
  /\ UNCHANGED <<token, user, location, view, unloading, loginError, loading, settingsStatus>>
  /\ UNCHANGED notApi

ApiGetResolve ==
  /\ \E r \in ReqIds :
       /\ req[r].state = "sent" /\ req[r].kind = "get"
       /\ Settle(r, NoError, "resolved")
  /\ UNCHANGED <<token, user, location, view, unloading, loginError, loading, settingsStatus>>
  /\ UNCHANGED notApi

ApiGetReject ==
  /\ \E r \in ReqIds, error \in AxiosErrors :
       /\ req[r].state = "sent" /\ req[r].kind = "get"
       /\ Settle(r, error, "rejected")
       /\ InterceptError(error)
  /\ UNCHANGED <<view, loginError, loading, settingsStatus>>
  /\ UNCHANGED notApi

ApiNext ==
  \/ OpenAdminPage
  \/ LoginSubmit
  \/ LoginResolve
  \/ LoginReject
  \/ ProfileSubmit
  \/ ProfileResolve
  \/ ProfileReject
  \/ handleLogout
  \/ ApiGetSubmit
  \/ ApiGetResolve
  \/ ApiGetReject

(***************************************************************************)
(* Offline action queue: services/offlineQueue.js                          *)
(***************************************************************************)
\* the operations of the page that may be in progress together
Procs == DOMAIN proc
Keys == 1..MaxKey

\* the stored method is whatever the caller passed
ActionMethods == {"POST", "DELETE", "PATCH"}

\* the axios errors a replayed call is rejected with
ReplayErrors ==
  {[status |-> 0, data |-> [error |-> NoText, message |-> NoText]],
   [status |-> 401, data |-> [error |-> <<"Token", "expired">>, message |-> NoText]]}

\* error.message of an axios error and of a failed IndexedDB request
AxiosMessage(error) == IF error.status = 0 THEN "Network Error" ELSE "Request failed"
RequestErrorMessage == "IDBRequest error"
OpenErrorMessage == "IDBOpenDBRequest error"

\* offlineQueue.js:50, store.getAll(): the records in ascending key order
RECURSIVE GetAll(_)
GetAll(records) ==
  IF records = {} THEN << >>
  ELSE LET first == CHOOSE a \in records : \A b \in records : a.id <= b.id
       IN <<first>> \o GetAll(records \ {first})

\* offlineQueue.js:32-35, store.add({...action, timestamp}): the key generator
\* gives the record its id
Add(records, key, action) ==
  records \cup {[id |-> key, method |-> action.method, url |-> action.url,
                 timestamp |-> Len(inserted) + 1]}

\* variant of the delete that is handed a key no record has
DeleteNothing(records, id) == records

\* offlineQueue.js:65, store.delete(id): no record of that key remains
Delete(records, id) == {a \in records : a.id # id}

\* offlineQueue.js:95-103: the API client call made for an action, "none" when
\* no branch matches its method
DispatchVerb(action) ==
  IF action.method = "GET" THEN "get"
  ELSE IF action.method = "POST" THEN "post"
  ELSE IF action.method = "PUT" THEN "put"
  ELSE IF action.method = "DELETE" THEN "delete"
  ELSE "none"

NoAction == [method |-> "none", url |-> "none"]

IdleProc ==
  [op |-> "none", pc |-> "idle", action |-> NoAction, id |-> 0, actions |-> << >>, i |-> 0,
   results |-> << >>, trail |-> << >>, headers |-> RequestHeaders(Null), alone |-> TRUE]

NoReturn ==
  [p |-> 0, op |-> "none", how |-> "none", key |-> 0, error |-> "none", action |-> NoAction,
   actions |-> << >>, results |-> << >>, trail |-> << >>, alone |-> TRUE]

\* a store transaction of operation p ran: every other replay in progress has
\* been interleaved with
Interleaved(p, procs) ==
  [q \in Procs |-> IF q # p /\ procs[q].op = "sync" /\ procs[q].pc # "idle"
                     THEN [procs[q] EXCEPT !.alone = FALSE]
                     ELSE procs[q]]

\* operation p settles: its promise resolves (with key, for an add) or rejects
Return(p, pr, how, key, message) ==
  [p |-> p, op |-> pr.op, how |-> how, key |-> key, error |-> message, action |-> pr.action,
   actions |-> pr.actions, results |-> pr.results, trail |-> pr.trail, alone |-> pr.alone]

Resolve(p, pr, key) ==
  /\ proc' = Interleaved(p, [proc EXCEPT ![p] = IdleProc])
  /\ ret' = Return(p, pr, "resolved", key, "none")

Reject(p, message) ==
  /\ proc' = [proc EXCEPT ![p] = IdleProc]
  /\ ret' = Return(p, proc[p], "rejected", 0, message)

SuccessResult(action) == [id |-> action.id, success |-> TRUE, error |-> "none"]
FailureResult(action, message) == [id |-> action.id, success |-> FALSE, error |-> message]

\* what a replay has done for one action: the API client call made for it
\* (none, pending, resolved, rejected) and the removal requested for it (none,
\* pending, done, failed)
Step(action, call, removal) ==
  [id |-> action.id, verb |-> DispatchVerb(action), call |-> call, removal |-> removal]

\* the last step of the trail moves on
Moved(pr, call, removal) ==
  [pr EXCEPT !.trail[Len(pr.trail)].call = call, !.trail[Len(pr.trail)].removal = removal]

\* offlineQueue.js:91-113: the for loop of replay p goes on to its i-th action:
\* the call for it is sent, or with no call to await the removal is requested, or
\* the loop is over and the results are returned. txn: a store transaction of p
\* ran in this step
Iterate(p, pr, i, tok, txn) ==
  IF i > Len(pr.actions)
    THEN /\ proc' = IF txn THEN Interleaved(p, [proc EXCEPT ![p] = IdleProc])
                           ELSE [proc EXCEPT ![p] = IdleProc]
         /\ ret' = Return(p, pr, "resolved", 0, "none")
    ELSE /\ LET next == IF DispatchVerb(pr.actions[i]) = "none"
                          THEN [pr EXCEPT !.i = i, !.pc = "remove",
                                          !.trail = Append(@, Step(pr.actions[i], "none", "pending"))]
                          ELSE [pr EXCEPT !.i = i, !.pc = "dispatch",
                                          !.trail = Append(@, Step(pr.actions[i], "pending", "none")),
                                          !.headers = RequestHeaders(tok)]
            IN proc' = IF txn THEN Interleaved(p, [proc EXCEPT ![p] = next])
                              ELSE [proc EXCEPT ![p] = next]
         /\ ret' = NoReturn

\* offlineQueue.js:25-27 (and 43-45, 58-60, 73-75): an exported operation is
\* called; with no handle it awaits initOfflineQueue()
Begin(p, op, action, id) ==
  /\ proc[p].pc = "idle"
  /\ proc' = [proc EXCEPT ![p] =
        [IdleProc EXCEPT !.op = op, !.action = action, !.id = id,
                         !.pc = IF db = "null" THEN "open" ELSE "txn"]]
  /\ ret' = NoReturn
  /\ UNCHANGED <<db, storeAvailable, store, keyGen, inserted, opens, apiVars, notQueue>>

queueOfflineAction ==
  /\ keyGen <= MaxKey
  /\ \E p \in Procs, method \in ActionMethods :
       Begin(p, "queue", [method |-> method, url |-> "/members"], 0)

getOfflineActions ==
  \E p \in Procs : Begin(p, "get", NoAction, 0)

removeOfflineAction ==
  \E p \in Procs, id \in Keys : Begin(p, "remove", NoAction, id)

clearOfflineActions ==
  \E p \in Procs : Begin(p, "clear", NoAction, 0)

syncOfflineActions ==
  \E p \in Procs : Begin(p, "sync", NoAction, 0)

\* offlineQueue.js:10-13: the open request succeeded
OpenSuccess ==
  /\ storeAvailable
  /\ \E p \in Procs :
       /\ proc[p].pc = "open"
       /\ proc' = [proc EXCEPT ![p].pc = "txn"]
  /\ db' = "open"
  /\ opens' = opens + 1
  /\ ret' = NoReturn
  /\ UNCHANGED <<storeAvailable, store, keyGen, inserted, apiVars, notQueue>>

\* variant of the failed open that lets the operation go on to its transaction
OpenErrorProceeds ==
  /\ ~storeAvailable
  /\ \E p \in Procs :
       /\ proc[p].pc = "open"
       /\ proc' = [proc EXCEPT ![p].pc = "txn"]
  /\ ret' = NoReturn
  /\ UNCHANGED <<db, storeAvailable, store, keyGen, inserted, opens, apiVars, notQueue>>

\* offlineQueue.js:9: the open request failed, the operation rejects
OpenError ==
  /\ ~storeAvailable
  /\ \E p \in Procs :
       /\ proc[p].pc = "open"
       /\ Reject(p, OpenErrorMessage)
  /\ UNCHANGED <<db, storeAvailable, store, keyGen, inserted, opens, apiVars, notQueue>>

\* the browser's storage becomes unavailable to the page, or available again
StorageToggle ==
  /\ db = "null"
  /\ storeAvailable' = ~storeAvailable
  /\ ret' = NoReturn
  /\ UNCHANGED <<db, store, keyGen, inserted, opens, proc, apiVars, notQueue>>

\* offlineQueue.js:29-39: the add request succeeded
QueueTxn ==
  /\ \E p \in Procs :
       /\ proc[p].pc = "txn" /\ proc[p].op = "queue"
       /\ store' = Add(store, keyGen, proc[p].action)
       /\ Resolve(p, proc[p], keyGen)
  /\ keyGen' = keyGen + 1
  /\ inserted' = Append(inserted, keyGen)
  /\ UNCHANGED <<db, storeAvailable, opens, apiVars, notQueue>>

\* variant of the listing that returns the newest record first
GetTxnNewestFirst ==
  /\ \E p \in Procs :
       /\ proc[p].pc = "txn" /\ proc[p].op = "get"
       /\ LET all == GetAll(store)
          IN Resolve(p, [proc[p] EXCEPT !.actions =
                           [k \in 1..Len(all) |-> all[Len(all) + 1 - k]]], 0)
  /\ UNCHANGED <<db, storeAvailable, store, keyGen, inserted, opens, apiVars, notQueue>>

\* offlineQueue.js:47-54: the getAll request succeeded
GetTxn ==
  /\ \E p \in Procs :
       /\ proc[p].pc = "txn" /\ proc[p].op = "get"
       /\ Resolve(p, [proc[p] EXCEPT !.actions = GetAll(store)], 0)
  /\ UNCHANGED <<db, storeAvailable, store, keyGen, inserted, opens, apiVars, notQueue>>

\* variant of the removal that deletes every record up to the key
RemoveTxnUpTo ==
  /\ \E p \in Procs :
       /\ proc[p].pc = "txn" /\ proc[p].op = "remove"
       /\ store' = {a \in store : a.id > proc[p].id}
       /\ Resolve(p, proc[p], 0)
  /\ UNCHANGED <<db, storeAvailable, keyGen, inserted, opens, apiVars, notQueue>>

\* offlineQueue.js:62-69: the delete request succeeded
RemoveTxn ==
  /\ \E p \in Procs :
       /\ proc[p].pc = "txn" /\ proc[p].op = "remove"
       /\ store' = Delete(store, proc[p].id)
       /\ Resolve(p, proc[p], 0)
  /\ UNCHANGED <<db, storeAvailable, keyGen, inserted, opens, apiVars, notQueue>>

\* variant of the clear that also resets the key generator
ClearTxnResetsKeys ==
  /\ \E p \in Procs :
       /\ proc[p].pc = "txn" /\ proc[p].op = "clear"
       /\ store' = {}
       /\ Resolve(p, proc[p], 0)
  /\ keyGen' = 1
  /\ UNCHANGED <<db, storeAvailable, inserted, opens, apiVars, notQueue>>

\* offlineQueue.js:77-84: the clear request succeeded
ClearTxn ==
  /\ \E p \in Procs :
       /\ proc[p].pc = "txn" /\ proc[p].op = "clear"
       /\ store' = {}
       /\ Resolve(p, proc[p], 0)
  /\ UNCHANGED <<db, storeAvailable, keyGen, inserted, opens, apiVars, notQueue>>

\* offlineQueue.js:37 (52, 67, 82): the request of the operation failed; a
\* replay whose listing failed rejects with it (offlineQueue.js:88)
TxnError ==
  /\ \E p \in Procs :
       /\ proc[p].pc = "txn"
       /\ Reject(p, RequestErrorMessage)
  /\ UNCHANGED <<db, storeAvailable, store, keyGen, inserted, opens, apiVars, notQueue>>

\* variant of the replay that walks the listing from its end
SyncListFromEnd ==
  /\ \E p \in Procs :
       /\ proc[p].pc = "txn" /\ proc[p].op = "sync"
       /\ LET all == GetAll(store)
          IN Iterate(p, [proc[p] EXCEPT !.actions =
                           [k \in 1..Len(all) |-> all[Len(all) + 1 - k]]], 1, token, TRUE)
  /\ UNCHANGED <<db, storeAvailable, store, keyGen, inserted, opens, apiVars, notQueue>>

\* offlineQueue.js:88-103: getOfflineActions() resolved, the loop starts
SyncList ==
  /\ \E p \in Procs :
       /\ proc[p].pc = "txn" /\ proc[p].op = "sync"
       /\ Iterate(p, [proc[p] EXCEPT !.actions = GetAll(store)], 1, token, TRUE)
  /\ UNCHANGED <<db, storeAvailable, store, keyGen, inserted, opens, apiVars, notQueue>>

\* offlineQueue.js:96-106: the call resolved, removeOfflineAction(action.id) is awaited
SyncDispatchResolve ==
  /\ \E p \in Procs :
       /\ proc[p].pc = "dispatch"
       /\ proc' = [proc EXCEPT ![p] = [Moved(@, "resolved", "pending") EXCEPT !.pc = "remove"]]
  /\ ret' = NoReturn
  /\ UNCHANGED <<db, storeAvailable, store, keyGen, inserted, opens, apiVars, notQueue>>

\* variant of the catch block that gives up the loop
SyncDispatchRejectStops ==
  /\ \E p \in Procs, error \in ReplayErrors :
       /\ proc[p].pc = "dispatch"
       /\ InterceptError(error)
       /\ Iterate(p, [Moved(proc[p], "rejected", "none") EXCEPT !.results =
                        Append(@, FailureResult(proc[p].actions[proc[p].i], AxiosMessage(error)))],
                  Len(proc[p].actions) + 1, token', FALSE)
  /\ UNCHANGED <<db, storeAvailable, store, keyGen, inserted, opens, notQueue>>
  /\ UNCHANGED <<view, req, delivered, loginError, loading, settingsStatus>>

\* variant of the catch block that goes through the same action again
SyncDispatchRejectRetries ==
  /\ \E p \in Procs, error \in ReplayErrors :
       /\ proc[p].pc = "dispatch"
       /\ InterceptError(error)
       /\ Iterate(p, Moved(proc[p], "rejected", "none"), proc[p].i, token', FALSE)
  /\ UNCHANGED <<db, storeAvailable, store, keyGen, inserted, opens, notQueue>>
  /\ UNCHANGED <<view, req, delivered, loginError, loading, settingsStatus>>

\* offlineQueue.js:108-110: the call was rejected, after the response interceptor ran
SyncDispatchReject ==
  /\ \E p \in Procs, error \in ReplayErrors :
       /\ proc[p].pc = "dispatch"
       /\ InterceptError(error)
       /\ Iterate(p, [Moved(proc[p], "rejected", "none") EXCEPT !.results =
                        Append(@, FailureResult(proc[p].actions[proc[p].i], AxiosMessage(error)))],
                  proc[p].i + 1, token', FALSE)
  /\ UNCHANGED <<db, storeAvailable, store, keyGen, inserted, opens, notQueue>>
  /\ UNCHANGED <<view, req, delivered, loginError, loading, settingsStatus>>

\* variant of the removal that empties the store
SyncRemoveDoneClears ==
  /\ \E p \in Procs :
       /\ proc[p].pc = "remove"
       /\ store' = {}
       /\ Iterate(p, [Moved(proc[p], proc[p].trail[proc[p].i].call, "done") EXCEPT !.results =
                        Append(@, SuccessResult(proc[p].actions[proc[p].i]))],
                  proc[p].i + 1, token, TRUE)
  /\ UNCHANGED <<db, storeAvailable, keyGen, inserted, opens, apiVars, notQueue>>

\* variant of the removal that succeeds only for a record that is there
SyncRemoveDonePresent ==
  /\ \E p \in Procs :
       /\ proc[p].pc = "remove"
       /\ proc[p].actions[proc[p].i] \in store
       /\ store' = Delete(store, proc[p].actions[proc[p].i].id)
       /\ Iterate(p, [Moved(proc[p], proc[p].trail[proc[p].i].call, "done") EXCEPT !.results =
                        Append(@, SuccessResult(proc[p].actions[proc[p].i]))],
                  proc[p].i + 1, token, TRUE)
  /\ UNCHANGED <<db, storeAvailable, keyGen, inserted, opens, apiVars, notQueue>>

\* offlineQueue.js:106-107: the record was deleted, the success is recorded
SyncRemoveDone ==
  /\ \E p \in Procs :
       /\ proc[p].pc = "remove"
       /\ store' = Delete(store, proc[p].actions[proc[p].i].id)
       /\ Iterate(p, [Moved(proc[p], proc[p].trail[proc[p].i].call, "done") EXCEPT !.results =
                        Append(@, SuccessResult(proc[p].actions[proc[p].i]))],
                  proc[p].i + 1, token, TRUE)
  /\ UNCHANGED <<db, storeAvailable, keyGen, inserted, opens, apiVars, notQueue>>

\* variant of the catch block that records nothing for a failed removal
SyncRemoveErrorSilent ==
  /\ \E p \in Procs :
       /\ proc[p].pc = "remove"
       /\ Iterate(p, Moved(proc[p], proc[p].trail[proc[p].i].call, "failed"),
                  proc[p].i + 1, token, FALSE)
  /\ UNCHANGED <<db, storeAvailable, store, keyGen, inserted, opens, apiVars, notQueue>>

\* variant of the replay that lets a failed delete request reject it
SyncRemoveErrorRejects ==
  /\ \E p \in Procs :
       /\ proc[p].pc = "remove"
       /\ Reject(p, RequestErrorMessage)
  /\ UNCHANGED <<db, storeAvailable, store, keyGen, inserted, opens, apiVars, notQueue>>

\* offlineQueue.js:67, 108-110: the delete request failed, the catch block records it
SyncRemoveError ==
  /\ \E p \in Procs :
       /\ proc[p].pc = "remove"
       /\ Iterate(p, [Moved(proc[p], proc[p].trail[proc[p].i].call, "failed") EXCEPT !.results =
                        Append(@, FailureResult(proc[p].actions[proc[p].i], RequestErrorMessage))],
                  proc[p].i + 1, token, FALSE)
  /\ UNCHANGED <<db, storeAvailable, store, keyGen, inserted, opens, apiVars, notQueue>>

\* another tab of the application runs a transaction on the shared store
\* (offlineQueue.js:29-35, 62-65, 77-80): every replay of this page has been
\* interleaved with
OtherTabAdd ==
  /\ keyGen <= MaxKey
  /\ \E method \in ActionMethods :
       store' = Add(store, keyGen, [method |-> method, url |-> "/members"])
  /\ keyGen' = keyGen + 1
  /\ inserted' = Append(inserted, keyGen)
  /\ proc' = Interleaved(0, proc)
  /\ ret' = NoReturn
  /\ UNCHANGED <<db, storeAvailable, opens, apiVars, notQueue>>

OtherTabRemove ==
  /\ \E id \in Keys : store' = Delete(store, id)
  /\ proc' = Interleaved(0, proc)
  /\ ret' = NoReturn
  /\ UNCHANGED <<db, storeAvailable, keyGen, inserted, opens, apiVars, notQueue>>

OtherTabClear ==
  /\ store' = {}
  /\ proc' = Interleaved(0, proc)
  /\ ret' = NoReturn
  /\ UNCHANGED <<db, storeAvailable, keyGen, inserted, opens, apiVars, notQueue>>

(***************************************************************************)
(* The page: a document load resets the page's state (React state, the     *)
(* module variable db, operations in progress); localStorage and the       *)
(* object store are kept                                                   *)
(***************************************************************************)
LoadDocument(path) ==
  /\ location' = Render(path, token, user).location
  /\ view' = Render(path, token, user).view
  /\ unloading' = FALSE
  /\ req' = [r \in ReqIds |-> IdleReq]
  /\ delivered' = NoDelivery
  /\ loginError' = NoText
  /\ loading' = FALSE
  /\ settingsStatus' = "none"
  /\ db' = "null"
  /\ opens' = 0
  /\ proc' = [p \in Procs |-> IdleProc]
  /\ ret' = NoReturn
  /\ UNCHANGED <<token, user, storeAvailable, store, keyGen, inserted, notQueue>>

\* the user enters an address
UserOpens ==
  \E path \in EnteredPaths : LoadDocument(path)

\* AdminLayout.jsx:290: the document that window.location.href = '/login' leads
\* to replaces the page
Unload ==
  /\ unloading
  /\ LoadDocument(location)

(***************************************************************************)
(* Connectivity: App.jsx:15-29, offlineQueue.js:117-123, sw.js             *)
(***************************************************************************)
SYNC_TAG == "sync-offline-actions"

\* App.jsx:19, 22: the window's 'online' event
handleOnline ==
  /\ ~isOnline
  /\ isOnline' = TRUE
  /\ event' = "online"
  /\ UNCHANGED <<syncTags, notApp>>

\* App.jsx:20, 23: the window's 'offline' event
handleOffline ==
  /\ isOnline
  /\ isOnline' = FALSE
  /\ event' = "offline"
  /\ UNCHANGED <<syncTags, notApp>>

\* offlineQueue.js:117-123: serviceWorker.ready resolved, the tag is registered
requestBackgroundSync ==
  /\ swState = "activated"
  /\ syncTags' = syncTags \cup {SYNC_TAG}
  /\ UNCHANGED <<isOnline, event, notApp>>

\* the browser delivers the 'sync' event of a registered tag to the worker:
\* sw.js adds listeners for install, activate and fetch only, so nothing runs
SyncEvent ==
  /\ swState = "activated"
  /\ isOnline
  /\ \E tag \in syncTags : syncTags' = syncTags \ {tag}
  /\ event' = "sync"
  /\ UNCHANGED <<isOnline, notApp>>

(***************************************************************************)
(* Specifications                                                          *)
(***************************************************************************)
\* the service worker, installed over whatever caches an earlier version left
InitSW ==
  /\ swState = "parsed"
  /\ cacheStorage \in UNION {[names -> SUBSET RequestUrls] :
                              names \in {s \in SUBSET AllCacheNames : Cardinality(s) <= MaxCaches}}
  /\ purgeList = {}
  /\ fetchEvent = [i \in FetchIds |-> IdleEvent]
  /\ netFetches = [i \in FetchIds |-> 0]
  /\ token = Null
  /\ user = Null
  /\ location = RouterPath(<<"login">>)
  /\ view = "login"
  /\ unloading = FALSE
  /\ req = [r \in ReqIds |-> IdleReq]
  /\ delivered = NoDelivery
  /\ loginError = NoText
  /\ loading = FALSE
  /\ settingsStatus = "none"
  /\ db = "null"
  /\ storeAvailable = TRUE
  /\ store = {}
  /\ keyGen = 1
  /\ inserted = << >>
  /\ opens = 0
  /\ proc = [p \in 1..MaxProc |-> IdleProc]
  /\ ret = NoReturn
  /\ isOnline = TRUE
  /\ syncTags = {}
  /\ event = "none"
  /\ guard = NoGuard

SpecSW == InitSW /\ [][SwNext]_vars

\* the session handlers and the API client of a page, from the login page of
\* a browser with no session
InitSession ==
  /\ swState = "parsed"
  /\ cacheStorage = << >>
  /\ purgeList = {}
  /\ fetchEvent = [i \in FetchIds |-> IdleEvent]
  /\ netFetches = [i \in FetchIds |-> 0]
  /\ token = Null
  /\ user = Null
  /\ location = RouterPath(<<"login">>)
  /\ view = "login"
  /\ unloading = FALSE
  /\ req = [r \in ReqIds |-> IdleReq]
  /\ delivered = NoDelivery
  /\ loginError = NoText
  /\ loading = FALSE
  /\ settingsStatus = "none"
  /\ db = "null"
  /\ storeAvailable = TRUE
  /\ store = {}
  /\ keyGen = 1
  /\ inserted = << >>
  /\ opens = 0
  /\ proc = [p \in 1..MaxProc |-> IdleProc]
  /\ ret = NoReturn
  /\ isOnline = TRUE
  /\ syncTags = {}
  /\ event = "none"
  /\ guard = NoGuard

SessionNext ==
  \/ UserOpens
  \/ Unload
  \/ ApiNext

SpecSession == InitSession /\ [][SessionNext]_vars

\* the queue operations of the page of a signed-in administrator, from an
\* empty object store
InitQueue ==
  /\ swState = "parsed"
  /\ cacheStorage = << >>
  /\ purgeList = {}
  /\ fetchEvent = [i \in FetchIds |-> IdleEvent]
  /\ netFetches = [i \in FetchIds |-> 0]
  /\ token = Str("jwt1")
  /\ user = JSONstringify(Obj("admin", "admin"))
  /\ location = RouterPath(<<"admin">>)
  /\ view = "admin"
  /\ unloading = FALSE
  /\ req = [r \in ReqIds |-> IdleReq]
  /\ delivered = NoDelivery
  /\ loginError = NoText
  /\ loading = FALSE
  /\ settingsStatus = "none"
  /\ db = "null"
  /\ storeAvailable = TRUE
  /\ store = {}
  /\ keyGen = 1
  /\ inserted = << >>
  /\ opens = 0
  /\ proc = [p \in 1..MaxProc |-> IdleProc]
  /\ ret = NoReturn
  /\ isOnline = TRUE
  /\ syncTags = {}
  /\ event = "none"
  /\ guard = NoGuard

QueueNext ==
  \/ queueOfflineAction
  \/ getOfflineActions
  \/ removeOfflineAction
  \/ clearOfflineActions
  \/ syncOfflineActions
  \/ OpenSuccess
  \/ OpenError
  \/ StorageToggle
  \/ QueueTxn
  \/ GetTxn
  \/ RemoveTxn
  \/ ClearTxn
  \/ TxnError
  \/ SyncList
  \/ SyncDispatchResolve
  \/ SyncDispatchReject
  \/ SyncRemoveDone
  \/ SyncRemoveError
  \/ OtherTabAdd
  \/ OtherTabRemove
  \/ OtherTabClear
  \/ Unload

SpecQueue == InitQueue /\ [][QueueNext]_vars

\* the same page with several queue operations in progress together: actions
\* are queued and replays are started while others are still awaiting the
\* open, a call or a transaction
InitDrains ==
  /\ swState = "parsed"
  /\ cacheStorage = << >>
  /\ purgeList = {}
  /\ fetchEvent = [i \in FetchIds |-> IdleEvent]
  /\ netFetches = [i \in FetchIds |-> 0]
  /\ token = Str("jwt1")
  /\ user = JSONstringify(Obj("admin", "admin"))
  /\ location = RouterPath(<<"admin">>)
  /\ view = "admin"
  /\ unloading = FALSE
  /\ req = [r \in ReqIds |-> IdleReq]
  /\ delivered = NoDelivery
  /\ loginError = NoText
  /\ loading = FALSE
  /\ settingsStatus = "none"
  /\ db = "null"
  /\ storeAvailable = TRUE
  /\ store = {}
  /\ keyGen = 1
  /\ inserted = << >>
  /\ opens = 0
  /\ proc = [p \in 1..MaxDrain |-> IdleProc]
  /\ ret = NoReturn
  /\ isOnline = TRUE
  /\ syncTags = {}
  /\ event = "none"
  /\ guard = NoGuard

\* offlineQueue.js:24-27: a failed POST is queued
queueOfflinePost ==
  /\ keyGen <= MaxDrainKey
  /\ \E p \in Procs : Begin(p, "queue", [method |-> "POST", url |-> "/members"], 0)

DrainNext ==
  \/ queueOfflinePost
  \/ syncOfflineActions
  \/ OpenSuccess
  \/ QueueTxn
  \/ SyncList
  \/ SyncDispatchResolve
  \/ SyncDispatchReject
  \/ SyncRemoveDone
  \/ SyncRemoveError
  \/ Unload

SpecDrains == InitDrains /\ [][DrainNext]_vars

\* the page of a signed-in administrator under an active worker, with
\* connectivity changing: the calls into the queue module come from outside the
\* sources, the steps that follow a call are the program's and the browser's
InitReconnect ==
  /\ swState = "activated"
  /\ cacheStorage = << >>
  /\ purgeList = {}
  /\ fetchEvent = [i \in FetchIds |-> IdleEvent]
  /\ netFetches = [i \in FetchIds |-> 0]
  /\ token = Str("jwt1")
  /\ user = JSONstringify(Obj("admin", "admin"))
  /\ location = RouterPath(<<"admin">>)
  /\ view = "admin"
  /\ unloading = FALSE
  /\ req = [r \in ReqIds |-> IdleReq]
  /\ delivered = NoDelivery
  /\ loginError = NoText
  /\ loading = FALSE
  /\ settingsStatus = "none"
  /\ db = "null"
  /\ storeAvailable = TRUE
  /\ store = {}
  /\ keyGen = 1
  /\ inserted = << >>
  /\ opens = 0
  /\ proc = [p \in 1..MaxProc |-> IdleProc]
  /\ ret = NoReturn
  /\ isOnline = TRUE
  /\ syncTags = {}
  /\ event = "none"
  /\ guard = NoGuard

ReconnectNext ==
  \/ handleOnline
  \/ handleOffline
  \/ requestBackgroundSync
  \/ SyncEvent
  \/ queueOfflineAction
  \/ syncOfflineActions
  \/ OpenSuccess
  \/ QueueTxn
  \/ SyncList
  \/ SyncDispatchResolve
  \/ SyncDispatchReject
  \/ SyncRemoveDone
  \/ Unload

\* what the program and the browser do by themselves is done eventually; the
\* connectivity changes and the calls into the queue module are not obliged
ReconnectFairness ==
  /\ WF_vars(SyncEvent)
  /\ WF_vars(OpenSuccess)
  /\ WF_vars(QueueTxn)
  /\ WF_vars(SyncList)
  /\ WF_vars(SyncDispatchResolve \/ SyncDispatchReject)
  /\ WF_vars(SyncRemoveDone)
  /\ WF_vars(Unload)

SpecReconnect == InitReconnect /\ [][ReconnectNext]_vars /\ ReconnectFairness

\* the route guard over what localStorage may hold
InitGuard ==
  /\ swState = "parsed"
  /\ cacheStorage = << >>
  /\ purgeList = {}
  /\ fetchEvent = [i \in FetchIds |-> IdleEvent]
  /\ netFetches = [i \in FetchIds |-> 0]
  /\ token \in GuardTokens
  /\ user \in GuardUsers
  /\ location = RouterPath(<<"login">>)
  /\ view = "login"
  /\ unloading = FALSE
  /\ req = [r \in ReqIds |-> IdleReq]
  /\ delivered = NoDelivery
  /\ loginError = NoText
  /\ loading = FALSE
  /\ settingsStatus = "none"
  /\ db = "null"
  /\ storeAvailable = TRUE
  /\ store = {}
  /\ keyGen = 1
  /\ inserted = << >>
  /\ opens = 0
  /\ proc = [p \in 1..MaxProc |-> IdleProc]
  /\ ret = NoReturn
  /\ isOnline = TRUE
  /\ syncTags = {}
  /\ event = "none"
  /\ guard = NoGuard

GuardNext == ProtectedRouteMount

SpecGuard == InitGuard /\ [][GuardNext]_vars

(***************************************************************************)
(* Properties                                                              *)
(***************************************************************************)
\* the authorization-denial phrases, as the documentation lists them
DenialPhrases == {<<"Only", "members">>, <<"Insufficient", "permissions">>, <<"Unauthorized">>}
HasDenialPhrase(text) == \E phrase \in DenialPhrases : Includes(text, phrase)

\* a call of the page settles in this step
Settles == delivered' # delivered /\ delivered'.how # "none"

\* C6: every intercepted http(s) request whose network attempt rejected and
\* that no cache holds is answered with the 503 "Service Unavailable" text/plain
\* response "Offline - No cached data available"; respondWith never receives a
\* value that is not a Response
OfflineFallbackDeterminism ==
  \A i \in FetchIds :
    fetchEvent[i].phase = "responded" =>
      /\ fetchEvent[i].respondWith.type = "Response"
      /\ (fetchEvent[i].network = "rejected" /\ CachesMatch(fetchEvent[i].url) = Undefined)
           => fetchEvent[i].respondWith = OfflineResponse

\* C4: a call that settles with a 401 whose error message contains one of the
\* authorization-denial phrases leaves token and user as they were, navigates
\* nowhere, and is rejected with that error
AuthorizationDenialKeepsSession ==
  [][(Settles /\ delivered'.error.status = 401
        /\ HasDenialPhrase(delivered'.error.data.error))
       => /\ token' = token
          /\ user' = user
          /\ location' = location /\ view' = view /\ unloading' = unloading
          /\ delivered'.how = "rejected"]_vars

\* C4 witness: a signed-in page has just had a call rejected with a 401
\* carrying a denial phrase, and the session is still there
DenialDeliveredSessionKept ==
  /\ delivered.how = "rejected"
  /\ delivered.error.status = 401
  /\ HasDenialPhrase(delivered.error.data.error)
  /\ token # Null /\ user # Null
  /\ view = "admin" /\ ~unloading

\* C5: a call that settles with a 401 whose error message contains none of the
\* authorization-denial phrases removes token and user, sends the browser to
\* the login route the router serves, and is still rejected
AuthenticationFailureLandsOnLogin ==
  [][(Settles /\ delivered'.error.status = 401
        /\ ~HasDenialPhrase(delivered'.error.data.error)
        /\ ~HasDenialPhrase(delivered'.error.data.message))
       => /\ token' = Null
          /\ user' = Null
          /\ ServesLogin(location')
          /\ delivered'.how = "rejected"]_vars

\* C7: token and user are both present or both absent in every reachable state
SessionPairing == (token = Null) <=> (user = Null)

\* key a was given to a record before key b was
EnqueuedBefore(a, b) ==
  \E m, n \in 1..Len(inserted) : m < n /\ inserted[m] = a /\ inserted[n] = b

\* a replay has returned its results and no other store operation ran meanwhile
ReplayReturnedAlone == ret.op = "sync" /\ ret.how = "resolved" /\ ret.alone

\* C1, as stated: when a replay over a1..an (each with one of the four verbs as
\* its method) returns and no other store operation interleaved, the store
\* holds exactly the actions whose HTTP dispatch failed, each action whose
\* dispatch succeeded is reported {success: true} and each whose dispatch
\* failed {success: false, error}
PartialFailureIsolation ==
  (ReplayReturnedAlone /\ \A k \in 1..Len(ret.trail) : ret.trail[k].verb # "none") =>
    /\ store = {ret.actions[k] : k \in {j \in 1..Len(ret.trail) : ret.trail[j].call = "rejected"}}
    /\ \A k \in 1..Len(ret.trail) :
         /\ ret.trail[k].call = "resolved" =>
              ret.results[k].id = ret.actions[k].id /\ ret.results[k].success
         /\ ret.trail[k].call = "rejected" =>
              /\ ret.results[k].id = ret.actions[k].id
              /\ ~ret.results[k].success
              /\ ret.results[k].error # "none"

\* C1, amended: when a replay over a1..an returns and no other store operation
\* interleaved, the store holds exactly the actions whose HTTP dispatch failed
\* or whose removal from the store failed; each of these is reported
\* {success: false, error} and every other action {success: true}, one result
\* per action in the order of the listing
PartialFailureIsolationAmended ==
  ReplayReturnedAlone =>
    LET kept == {j \in 1..Len(ret.actions) :
                   ret.trail[j].call = "rejected" \/ ret.trail[j].removal = "failed"}
    IN /\ Len(ret.trail) = Len(ret.actions)
       /\ Len(ret.results) = Len(ret.actions)
       /\ store = {ret.actions[k] : k \in kept}
       /\ \A k \in 1..Len(ret.actions) :
            /\ ret.results[k].id = ret.actions[k].id
            /\ ret.results[k].success = (k \notin kept)
            /\ (k \in kept) => ret.results[k].error # "none"

\* C1 witness: a replay over three actions returned, the first replayed and
\* removed, the second's dispatch rejected, the third replayed but not removed
ReplayedThreeMixed ==
  /\ ReplayReturnedAlone
  /\ Len(ret.actions) = 3
  /\ ret.trail[1].call = "resolved" /\ ret.trail[1].removal = "done"
  /\ ret.trail[2].call = "rejected"
  /\ ret.trail[3].call = "resolved" /\ ret.trail[3].removal = "failed"
  /\ store = {ret.actions[2], ret.actions[3]}

\* C2: within one replay the actions are dispatched in the order they were
\* enqueued (ascending key), one at a time: when the step for action k+1 has
\* begun, the call for action k has settled and, if it succeeded, the removal
\* of action k has settled too, whatever the verbs
InOrderOneAtATime ==
  \A p \in Procs :
    proc[p].op = "sync" =>
      /\ Len(proc[p].trail) <= Len(proc[p].actions)
      /\ \A k \in 1..Len(proc[p].trail) : proc[p].trail[k].id = proc[p].actions[k].id
      /\ \A k \in 1..(Len(proc[p].trail) - 1) :
           /\ proc[p].trail[k].id < proc[p].trail[k + 1].id
           /\ EnqueuedBefore(proc[p].trail[k].id, proc[p].trail[k + 1].id)
           /\ proc[p].trail[k].call \in {"none", "resolved", "rejected"}
           /\ proc[p].trail[k].call = "resolved" => proc[p].trail[k].removal \in {"done", "failed"}

\* C2 witness: the call for the second action is in flight, with another verb
\* than the first, whose call resolved and whose record was removed
SecondDispatchInFlight ==
  \E p \in Procs :
    /\ proc[p].op = "sync"
    /\ Len(proc[p].trail) = 2
    /\ proc[p].trail[1].call = "resolved" /\ proc[p].trail[1].removal = "done"
    /\ proc[p].trail[2].call = "pending"
    /\ proc[p].trail[1].verb # proc[p].trail[2].verb

\* C3: a replay requests the removal of an action, and reports it as a
\* success, only after the API client call it made for the action succeeded,
\* whatever the action's stored method is
RemovedOnlyAfterSuccessfulDispatch ==
  /\ \A p \in Procs :
       proc[p].op = "sync" =>
         \A k \in 1..Len(proc[p].trail) :
           proc[p].trail[k].removal # "none" => proc[p].trail[k].call = "resolved"
  /\ ret.op = "sync" =>
       \A k \in 1..Len(ret.results) :
         ret.results[k].success => ret.trail[k].call = "resolved"

\* C9: a successful queueOfflineAction returns the key the store gave the new
\* record; no two records of the store share a key; and no key is given twice,
\* also after its record was removed or the store was cleared
KeyIdentity ==
  /\ (ret.op = "queue" /\ ret.how = "resolved") =>
       /\ inserted # << >> /\ inserted[Len(inserted)] = ret.key
       /\ \E a \in store :
            a.id = ret.key /\ a.method = ret.action.method /\ a.url = ret.action.url
  /\ \A a, b \in store : a.id = b.id => a = b
  /\ \A a \in store : \E n \in 1..Len(inserted) : inserted[n] = a.id
  /\ \A m, n \in 1..Len(inserted) : inserted[m] = inserted[n] => m = n

\* C9 witness: an enqueue has returned its key while the records of all
\* earlier keys are gone, and the key is a new one
EnqueuedAfterEarlierKeysGone ==
  /\ ret.op = "queue" /\ ret.how = "resolved"
  /\ Len(inserted) = 3
  /\ ret.key = 3
  /\ \A a \in store : a.id = ret.key

\* C10: getOfflineActions resolves with every record of the store, each once,
\* in the order they were enqueued, and with the empty list for an empty store;
\* it is rejected only when the database cannot be opened or the getAll
\* request itself fails, and an empty open store never keeps it from resolving
ListsAllInEnqueueOrder ==
  /\ (ret.op = "get" /\ ret.how = "resolved") =>
       /\ {ret.actions[k] : k \in 1..Len(ret.actions)} = store
       /\ Len(ret.actions) = Cardinality(store)
       /\ \A j, k \in 1..Len(ret.actions) :
            j < k => EnqueuedBefore(ret.actions[j].id, ret.actions[k].id)
       /\ store = {} => ret.actions = << >>
  /\ (ret.op = "get" /\ ret.how = "rejected") =>
       ret.error \in {OpenErrorMessage, RequestErrorMessage}
  /\ (\E p \in Procs : proc[p].op = "get" /\ proc[p].pc = "txn") => ENABLED GetTxn

\* C10 witness: the listing returned the two records left after the one
\* enqueued between them was removed
ListedTwoAroundRemoved ==
  /\ ret.op = "get" /\ ret.how = "resolved"
  /\ Len(ret.actions) = 2
  /\ ret.actions[1].id = 1 /\ ret.actions[2].id = 3

\* C8: whenever the store holds queued actions and connectivity is restored
\* (the 'online' event fired, or the 'sync-offline-actions' sync event was
\* delivered to the worker), a replay is eventually started
DrainOnReconnect ==
  ((event \in {"online", "sync"}) /\ store # {}) ~> (\E p \in Procs : proc[p].op = "sync")

\* C11: a removeOfflineAction(key) that resolves has removed the record of
\* that key and no other, and has left the store as it was when no record has
\* the key; a key that is not in the store never keeps it from resolving
IdempotentRemoval ==
  /\ [][\A p \in Procs :
         (proc[p].op = "remove" /\ proc[p].pc = "txn"
            /\ ret'.op = "remove" /\ ret'.how = "resolved" /\ ret'.p = p)
         => /\ \A a \in store : (a \in store') <=> (a.id # proc[p].id)
            /\ store' \subseteq store
            /\ (~\E a \in store : a.id = proc[p].id) => store' = store]_vars
  /\ []((\E p \in Procs : proc[p].op = "remove" /\ proc[p].pc = "txn") => ENABLED RemoveTxn)

\* C11 witness: a removal has resolved while every record ever added is still
\* in the store: its key was that of no record, and nothing was altered
RemovedMissingKey ==
  /\ ret.op = "remove" /\ ret.how = "resolved"
  /\ Len(inserted) = 2
  /\ Cardinality(store) = 2

\* C12: a call that fails with anything but a 401 (a 403, another error
\* status, or no response at all) leaves token and user as they were, navigates
\* nowhere, and is rejected with that error
OtherFailuresKeepSession ==
  [][(Settles /\ delivered'.error.status \notin {200, 401})
       => /\ token' = token
          /\ user' = user
          /\ location' = location /\ view' = view /\ unloading' = unloading
          /\ delivered'.how = "rejected"]_vars

\* C12 witness: a signed-in page has just had a call rejected with a 403 whose
\* message is no denial phrase, and the session is still there
ForbiddenDeliveredSessionKept ==
  /\ delivered.how = "rejected"
  /\ delivered.error.status = 403
  /\ delivered.error.data.error = <<"Token", "expired">>
  /\ token # Null /\ user # Null
  /\ view = "admin" /\ ~unloading

\* C13: every call is sent with Cache-Control: no-cache, no-store,
\* must-revalidate, Pragma: no-cache and Expires: 0, and with Authorization:
\* Bearer <token> exactly when localStorage holds a token as it is sent, the
\* token being the stored value of that moment
RequestCarriesHeaders ==
  [][\A r \in ReqIds :
       (req[r].state = "idle" /\ req'[r].state = "sent")
       => /\ req'[r].headers.CacheControl = "no-cache, no-store, must-revalidate"
          /\ req'[r].headers.Pragma = "no-cache"
          /\ req'[r].headers.Expires = "0"
          /\ (token = Null) <=> (req'[r].headers.Authorization = << >>)
          /\ (token # Null) => req'[r].headers.Authorization = <<"Bearer", token.text>>]_vars

\* C13 witness: a call of a signed-in page is in flight, sent with the stored
\* token as its bearer
SentWithBearer ==
  \E r \in ReqIds :
    /\ req[r].state = "sent" /\ req[r].kind = "get"
    /\ token = Str("jwt1")
    /\ req[r].headers.Authorization = <<"Bearer", "jwt1">>

\* C14: within one replay every action has at most one call made for it; an
\* action whose call was rejected gets no further call in that replay and,
\* no other store operation having run meanwhile, is in the store with its
\* fields unchanged when the replay returns; whatever else runs, the only
\* record a step of the replay takes from the store is the one whose removal
\* it has requested, never one whose call was rejected
NoRetryWithinInvocation ==
  /\ [](\A p \in Procs :
         proc[p].op = "sync" =>
           /\ Len(proc[p].trail) <= Len(proc[p].actions)
           /\ \A j, k \in 1..Len(proc[p].trail) :
                proc[p].trail[j].id = proc[p].trail[k].id => j = k)
  /\ [](ret.op = "sync" =>
         /\ \A j, k \in 1..Len(ret.trail) : ret.trail[j].id = ret.trail[k].id => j = k
         /\ (ret.how = "resolved" /\ ret.alone) =>
              \A k \in 1..Len(ret.trail) :
                ret.trail[k].call = "rejected" => ret.actions[k] \in store)
  /\ [][\A p \in Procs :
         (/\ proc[p].op = "sync"
          /\ \/ proc'[p].pc # proc[p].pc
             \/ proc'[p].i # proc[p].i
             \/ proc'[p].trail # proc[p].trail)
         => \A a \in store \ store' :
              /\ proc[p].pc = "remove"
              /\ a = proc[p].actions[proc[p].i]
              /\ proc[p].trail[proc[p].i].call # "rejected"]_vars

\* C14 witness: a replay over two actions returned; the call for the first
\* was rejected once and the record is still there, the second was replayed
FailedOnceAndKept ==
  /\ ReplayReturnedAlone
  /\ Len(ret.trail) = 2
  /\ ret.trail[1].call = "rejected"
  /\ ret.trail[2].call = "resolved" /\ ret.trail[2].removal = "done"
  /\ store = {ret.actions[1]}

\* C15: a replay lists every record the store holds, however often earlier
\* replays failed on it; the rejection of a call takes no record from the
\* store and is followed at once by the step for the next listed action (or,
\* after the last, by the return of the results); and a replay that returns
\* has attempted every action it listed, those after a rejected one included
NoPoisonEviction ==
  /\ [][\A p \in Procs :
         (proc[p].op = "sync" /\ proc[p].pc = "txn" /\ proc'[p].trail # proc[p].trail)
         => {proc'[p].actions[k] : k \in 1..Len(proc'[p].actions)} = store]_vars
  /\ [][\A p \in Procs :
         (proc[p].op = "sync" /\ proc[p].pc = "dispatch"
            /\ proc'[p].op = "sync" /\ Len(proc'[p].trail) >= proc[p].i
            /\ proc'[p].trail[proc[p].i].call = "rejected")
         => /\ store' = store
            /\ proc[p].i < Len(proc[p].actions)
            /\ Len(proc'[p].trail) = proc[p].i + 1
            /\ proc'[p].trail[proc[p].i + 1].id = proc[p].actions[proc[p].i + 1].id
            /\ proc'[p].trail[proc[p].i + 1].call \in {"pending", "none"}]_vars
  /\ []((ret.op = "sync" /\ ret.how = "resolved") =>
         /\ Len(ret.trail) = Len(ret.actions)
         /\ \A k \in 1..Len(ret.trail) :
              /\ ret.trail[k].id = ret.actions[k].id
              /\ (ret.trail[k].verb # "none") => ret.trail[k].call \in {"resolved", "rejected"}
              /\ (ret.trail[k].call = "rejected" /\ ret.alone) => ret.actions[k] \in store)

\* C15 witness: a replay over three actions returned; the call for the first
\* was rejected and its record is kept, and the two queued after it were
\* dispatched all the same
PoisonFirstOthersReplayed ==
  /\ ReplayReturnedAlone
  /\ Len(ret.trail) = 3
  /\ ret.trail[1].call = "rejected"
  /\ ret.trail[2].call = "resolved" /\ ret.trail[3].call = "resolved"
  /\ ret.actions[1] \in store

\* C16: when a replay resolves, every action of the list it fetched has been
\* attempted and nothing of it is still pending, and the list it returns has
\* one entry per fetched action, in the order of the fetched list, each with
\* the id of its action
OneResultPerFetchedAction ==
  (ret.op = "sync" /\ ret.how = "resolved") =>
    /\ Len(ret.results) = Len(ret.actions)
    /\ Len(ret.trail) = Len(ret.actions)
    /\ \A k \in 1..Len(ret.actions) :
         /\ ret.results[k].id = ret.actions[k].id
         /\ ret.trail[k].id = ret.actions[k].id
         /\ ret.trail[k].call # "pending"
         /\ ret.trail[k].removal # "pending"
         /\ ret.results[k].success <=> ret.trail[k].removal = "done"

\* C16 witness: a replay over three actions resolved with its three results
\* although another tab worked on the store meanwhile
ThreeResultsDespiteInterleaving ==
  /\ ret.op = "sync" /\ ret.how = "resolved"
  /\ ~ret.alone
  /\ Len(ret.results) = 3
  /\ ~ret.results[2].success

\* C17: while the database cannot be opened, an operation that has to open it
\* (any of the five) can only be rejected, with the open error: no handle is
\* cached, the store is left as it is and a replay makes no call; once the
\* database can be opened the operation opens it, caches the handle and goes
\* on to its transaction
StoreUnavailable ==
  /\ [][\A p \in Procs :
         (proc[p].pc = "open" /\ ~storeAvailable)
         => \/ proc'[p].pc = "open" /\ proc'[p].op = proc[p].op /\ db' = db
            \/ /\ ret'.p = p /\ ret'.op = proc[p].op
               /\ ret'.how = "rejected" /\ ret'.error = OpenErrorMessage
               /\ ret'.trail = << >> /\ ret'.results = << >>
               /\ proc'[p].pc = "idle"
               /\ db' = "null" /\ store' = store /\ keyGen' = keyGen
            \/ unloading /\ ~unloading']_vars
  /\ [][\A p \in Procs :
         (proc[p].pc = "open" /\ proc'[p].pc = "txn")
         => storeAvailable /\ db' = "open" /\ proc'[p].op = proc[p].op]_vars
  /\ [](~storeAvailable => db = "null")
  /\ []((storeAvailable /\ \E p \in Procs : proc[p].pc = "open") => ENABLED OpenSuccess)

\* C17 witness: a replay over a store that holds a record was rejected with
\* the open error, without a call and without a handle
ReplayRejectedUnopened ==
  /\ ret.op = "sync" /\ ret.how = "rejected" /\ ret.error = OpenErrorMessage
  /\ ret.trail = << >>
  /\ store # {}
  /\ db = "null" /\ ~storeAvailable

\* C18: ProtectedRoute renders its children only when the token and the user
\* are both present, the user parses as JSON and, a requiredRole being given,
\* the parsed role equals it; in every other case, an unparsable user
\* included, it renders no children and redirects to /login
RouteGuard ==
  guard.outcome # "none" =>
    LET sessionOk ==
          /\ guard.token # Null
          /\ guard.user # Null
          /\ guard.user.json # NotJson
          /\ (guard.requiredRole = Missing \/ guard.user.json.role = guard.requiredRole)
    IN /\ (guard.outcome = "children") <=> sessionOk
       /\ (guard.outcome = "children") => view = "admin"
       /\ (guard.outcome # "children") =>
            /\ guard.outcome = "redirect"
            /\ view = "login"
            /\ location = BASENAME \o <<"login">>

\* C18 witness: the guard found a token and a user value that is no JSON, and
\* redirected to the login route
UnparsableUserRedirected ==
  /\ guard.outcome = "redirect"
  /\ guard.token # Null
  /\ guard.user = Str("undefined")
  /\ view = "login"

\* C19: after ProtectedRoute has handled a user value that does not parse,
\* neither the token nor the user is left in localStorage
UnparsableUserDestroysSession ==
  (guard.outcome # "none" /\ guard.user # Null /\ guard.user.json = NotJson)
    => (token = Null /\ user = Null)

\* C20: a fetch event whose request URL scheme is neither http nor https is
\* left to the browser: the worker never calls respondWith for it, issues no
\* network fetch for it and does not consult the cache for it, at the
\* dispatch and at every later step
NonHttpPassThrough ==
  /\ [](\A i \in FetchIds :
         (fetchEvent[i].phase # "idle" /\ fetchEvent[i].scheme \notin {"http:", "https:"})
         => /\ fetchEvent[i].phase = "default"
            /\ fetchEvent[i].respondWith = NoValue
            /\ fetchEvent[i].network = "none"
            /\ netFetches[i] = 0)
  /\ [][\A i \in FetchIds :
         (fetchEvent'[i].phase # "idle" /\ fetchEvent'[i].scheme \notin {"http:", "https:"})
         => /\ netFetches'[i] = netFetches[i]
            /\ fetchEvent'[i].respondWith = NoValue
            /\ (fetchEvent[i].phase # "idle" => fetchEvent'[i] = fetchEvent[i])]_vars

\* C20 witness: an extension request was dispatched and left alone while an
\* http request of the same worker went to the network, found no cached copy
\* and was answered
ExtensionRequestLeftAlone ==
  \E i, j \in FetchIds :
    /\ fetchEvent[i].scheme = "chrome-extension:"
    /\ fetchEvent[i].phase = "default"
    /\ netFetches[i] = 0
    /\ fetchEvent[j].scheme = "https:"
    /\ fetchEvent[j].phase = "responded"
    /\ fetchEvent[j].network = "rejected"
    /\ netFetches[j] = 1

\* C21: once the activation has completed, none of the named caches that
\* existed when the activate event fired remains and the set of caches is
\* empty; no step ever adds a cache or an entry to one, so it stays empty
ActivationPurge ==
  /\ [](swState = "activated" =>
         /\ purgeList \cap DOMAIN cacheStorage = {}
         /\ DOMAIN cacheStorage = {})
  /\ [][/\ DOMAIN cacheStorage' \subseteq DOMAIN cacheStorage
         /\ \A n \in DOMAIN cacheStorage' : cacheStorage'[n] \subseteq cacheStorage[n]
         /\ (swState = "activated" => swState' = "activated")]_vars

\* C21 witness: the activation found two named caches, the current one among
\* them, and has completed with none left; a request that failed on the
\* network afterwards found nothing cached
TwoCachesPurged ==
  /\ swState = "activated"
  /\ Cardinality(purgeList) = MaxCaches
  /\ CACHE_NAME \in purgeList
  /\ DOMAIN cacheStorage = {}
  /\ \E i \in FetchIds : fetchEvent[i].respondWith = Undefined

\* C22: the worker issues exactly one network fetch for every intercepted
\* http(s) request; when the fetch resolved, the worker has responded with
\* the network's response as it came and the cache was not consulted; when
\* it rejected, no further network fetch is issued for the event
NetworkFirstSingleAttempt ==
  /\ [](\A i \in FetchIds :
         (fetchEvent[i].phase # "idle" /\ fetchEvent[i].scheme \in {"http:", "https:"})
         => /\ netFetches[i] = 1
            /\ fetchEvent[i].network = "pending" <=> fetchEvent[i].phase = "network"
            /\ fetchEvent[i].phase = "cacheMatch" => fetchEvent[i].network = "rejected"
            /\ fetchEvent[i].network = "resolved" =>
                 /\ fetchEvent[i].phase = "responded"
                 /\ \E st \in NetworkStatuses :
                      fetchEvent[i].respondWith = ServerResponse(st, "network")
            /\ (fetchEvent[i].phase = "responded" /\ fetchEvent[i].network = "rejected") =>
                 fetchEvent[i].respondWith \notin {ServerResponse(st, "network") : st \in NetworkStatuses})
  /\ [][\A i \in FetchIds :
         /\ fetchEvent[i].phase \notin {"idle"} => netFetches'[i] = netFetches[i]
         /\ fetchEvent[i].network = "resolved" => fetchEvent'[i] = fetchEvent[i]
         /\ (fetchEvent[i].phase = "network" /\ fetchEvent'[i].network = "resolved")
              => fetchEvent'[i].phase = "responded"]_vars

\* C22 witness: one request was answered by the network with an error status
\* and that response was passed on; another one failed on the network, was
\* answered otherwise, and still counts one network fetch
PassedThroughAndFailedOnce ==
  \E i, j \in FetchIds :
    /\ fetchEvent[i].network = "resolved"
    /\ fetchEvent[i].respondWith = ServerResponse(500, "network")
    /\ netFetches[i] = 1
    /\ fetchEvent[j].network = "rejected"
    /\ fetchEvent[j].phase = "responded"
    /\ netFetches[j] = 1

\* C23: with replays overlapping on one store, the store never holds two
\* records of one key; a replay awaiting the removal of a record that another
\* replay has already removed can go on as after any removal, and its step
\* changes nothing in the store; a replay that returns was not rejected after
\* its listing and has one result for every action it listed
ConcurrentDrains ==
  /\ [](\A a, b \in store : a.id = b.id => a = b)
  /\ [](\A p \in Procs :
         (proc[p].pc = "remove" /\ proc[p].actions[proc[p].i] \notin store)
         => ENABLED SyncRemoveDone)
  /\ [][\A p \in Procs :
         (/\ proc[p].pc = "remove"
          /\ proc[p].actions[proc[p].i] \notin store
          /\ proc'[p].trail # proc[p].trail)
         => /\ store' = store
            /\ ~(ret'.p = p /\ ret'.how = "rejected")]_vars
  /\ [](ret.op = "sync" =>
         /\ ret.how = "rejected" => ret.trail = << >>
         /\ ret.how = "resolved" =>
              /\ Len(ret.results) = Len(ret.actions)
              /\ \A k \in 1..Len(ret.actions) : ret.results[k].id = ret.actions[k].id)

\* C23 witness: one replay has returned after sending the call for record 1
\* and removing it; another replay, still in progress, has sent its own call
\* for record 1 as well and its removal of the record, by then gone, has
\* succeeded
DoubleReplay ==
  /\ ret.op = "sync" /\ ret.how = "resolved"
  /\ \E j \in 1..Len(ret.trail) :
       /\ ret.trail[j].id = 1
       /\ ret.trail[j].call = "resolved"
       /\ ret.trail[j].removal = "done"
  /\ \E p \in Procs \ {ret.p} :
       /\ proc[p].op = "sync"
       /\ \E k \in 1..Len(proc[p].trail) :
            /\ proc[p].trail[k].id = 1
            /\ proc[p].trail[k].call = "resolved"
            /\ proc[p].trail[k].removal = "done"
            /\ proc[p].results[k] = [id |-> 1, success |-> TRUE, error |-> "none"]

\* C24: a call that settles with a 401 whose denial phrase is carried in the
\* message field of the body leaves token and user as they were and
\* navigates nowhere, as one carrying it in the error field does
MessageFieldDenialKeepsSession ==
  [][(Settles /\ delivered'.error.status = 401
        /\ HasDenialPhrase(delivered'.error.data.message))
       => /\ token' = token
          /\ user' = user
          /\ location' = location /\ view' = view /\ unloading' = unloading
          /\ delivered'.how = "rejected"]_vars

\* C25: whatever queue operations overlap, the page opens the database at
\* most once in its lifetime
OpenedAtMostOnce == opens <= 1

\* C26: a replay is rejected only before it has listed the store; a step of
\* the replay in which the call or the removal for an action fails records
\* {success: false} for that action, leaves the store as it is and goes on
\* to the next action or returns the results; a replay that has returned has
\* attempted every action it listed, and, no other store operation having
\* run meanwhile, every action it reports as failed is still in the store,
\* where the listing of the next replay finds it
ReplayNeverRejects ==
  /\ [](ret.op = "sync" =>
         /\ ret.how = "rejected" => (ret.trail = << >> /\ ret.results = << >>)
         /\ ret.how = "resolved" =>
              /\ Len(ret.trail) = Len(ret.actions)
              /\ \A k \in 1..Len(ret.trail) :
                   /\ ret.results[k].success <=> ret.trail[k].removal = "done"
                   /\ (~ret.results[k].success /\ ret.alone) => ret.actions[k] \in store)
  /\ [][\A p \in Procs :
         (/\ proc[p].op = "sync" /\ proc[p].pc \in {"dispatch", "remove"}
          /\ proc'[p].trail # proc[p].trail
          /\ ~(unloading /\ ~unloading'))
         => LET after == IF proc'[p].pc = "idle" THEN ret' ELSE proc'[p]
                k == proc[p].i
            IN /\ proc'[p].pc = "idle" => (ret'.p = p /\ ret'.how = "resolved")
               /\ after.actions = proc[p].actions
               /\ after.trail[k].call = "rejected" \/ after.trail[k].removal = "failed"
                    => /\ store' = store
                       /\ Len(after.results) = k
                       /\ after.results[k].id = proc[p].actions[k].id
                       /\ ~after.results[k].success
                       /\ Len(after.trail) = k + 1 \/ (k = Len(proc[p].actions) /\ proc'[p].pc = "idle")]_vars
  /\ [][\A p \in Procs :
         (proc[p].op = "sync" /\ proc[p].pc = "txn" /\ proc'[p].pc \in {"dispatch", "remove"})
         => proc'[p].actions = GetAll(store)]_vars

\* C26 witness: a replay over two actions has returned; the call for the
\* first succeeded but its removal failed, so it is reported as failed and is
\* still in the store; the second was attempted and replayed
RemovalFailedReportedAndKept ==
  /\ ret.op = "sync" /\ ret.how = "resolved" /\ ret.alone
  /\ Len(ret.actions) = 2
  /\ ret.trail[1].call = "resolved" /\ ret.trail[1].removal = "failed"
  /\ ret.results[1] = FailureResult(ret.actions[1], RequestErrorMessage)
  /\ ret.actions[1] \in store
  /\ ret.results[2].success
  /\ ret.actions[2] \notin store

\* the keys of the actions a replay has listed
ListedKeys(actions) == {actions[k].id : k \in 1..Len(actions)}

\* C27: a replay works on the list it read at its start: the list does not
\* change while the replay goes on, the k-th action it handles is the k-th
\* of that list, and no step of the replay takes from the store a record
\* that is not in the list, so that an action queued while the replay
\* awaits a call or a removal is neither sent nor removed by it
SnapshotSemantics ==
  /\ [](\A p \in Procs :
         (proc[p].op = "sync" /\ proc[p].pc \in {"dispatch", "remove"})
         => /\ Len(proc[p].trail) = proc[p].i
            /\ proc[p].i <= Len(proc[p].actions)
            /\ \A k \in 1..Len(proc[p].trail) : proc[p].trail[k].id = proc[p].actions[k].id)
  /\ [](ret.op = "sync" =>
         \A k \in 1..Len(ret.trail) : ret.trail[k].id = ret.actions[k].id)
  /\ [][\A p \in Procs :
         (/\ proc[p].op = "sync" /\ proc[p].pc \in {"dispatch", "remove"}
          /\ proc'[p].trail # proc[p].trail
          /\ ~(unloading /\ ~unloading'))
         => /\ (IF proc'[p].pc = "idle" THEN ret'.actions ELSE proc'[p].actions) = proc[p].actions
            /\ \A a \in store : a.id \notin ListedKeys(proc[p].actions) => a \in store']_vars
  /\ [][\A p \in Procs :
         (proc[p].op = "sync" /\ proc[p].pc \in {"dispatch", "remove"}
          /\ proc'[p].trail = proc[p].trail)
         => (proc'[p].actions = proc[p].actions \/ (unloading /\ ~unloading'))]_vars

\* C27 witness: a replay that had listed record 1 alone has returned after
\* replaying it; record 2, queued after that listing, is in the store
QueuedDuringReplayKept ==
  /\ ret.op = "sync" /\ ret.how = "resolved"
  /\ ListedKeys(ret.actions) = {1}
  /\ ret.trail[1].call = "resolved" /\ ret.trail[1].removal = "done"
  /\ inserted = <<1, 2>>
  /\ \E a \in store : a.id = 2
  /\ \A a \in store : a.id # 1

LoginAndGuardAgree ==
  [][(/\ Settles
      /\ delivered'.kind = "login" /\ delivered'.how = "resolved"
      /\ user' # Null
      /\ user'.json.type = "object"
      /\ user'.json.role \in {"ADMIN", "admin"})
     => /\ view' = "admin"
        /\ location' = RouterPath(<<"admin">>)]_vars

\* C30: a login call that is rejected, with whatever error, writes no
\* session key and starts no forced navigation; the login page shows the
\* server's message, or the default text, and is no longer loading
RejectedLoginHandledInline ==
  [][(Settles /\ delivered'.kind = "login" /\ delivered'.how = "rejected")
     => /\ token' = token /\ user' = user
        /\ ~unloading' /\ location' = location /\ view' = view
        /\ loginError' = LoginErrorText(delivered'.error)
        /\ ~loading']_vars

====
